---------------------------- MODULE Spec2Model ----------------------------
(***************************************************************************)
(* A model of the three Streamlit applications appQ1.py, appQ2.py and      *)
(* appQ4.py: the text extractor, the regex abbreviation indexer of appQ2   *)
(* and the conversation log kept in st.session_state.                      *)
(*                                                                         *)
(* A Python str is a sequence of one-character strings.  The regular       *)
(* expressions of the source are modelled by what Python's backtracking    *)
(* matcher does on them: leftmost match, greedy and lazy quantifiers,      *)
(* non-overlapping scan.                                                   *)
(***************************************************************************)
EXTENDS Integers, Sequences, FiniteSets, TLC

VARIABLES
    text,             \* appQ2: the argument of extract_abbreviations_simple
    pc,               \* position in the running function / script
    matches,          \* appQ2: re.findall(pattern, text), list of (full, abbr)
    idx,              \* appQ2: index of the next element of matches in the for loop
    abbr_dict,        \* appQ2: dict abbr -> full term, as (abbr, full) pairs in insertion order
    best_full,        \* appQ2: the loop's local best_full after the last iteration
    output,           \* appQ2: the value returned by extract_abbreviations_simple
    app,              \* which script the session runs: "appQ1", "appQ2" or "appQ4"
    session_state,    \* st.session_state: a function from keys to values
    question,         \* value of the question st.text_input
    api_key,          \* value of the API key st.text_input (appQ4)
    uploaded_file,    \* value of st.file_uploader: None or Some([name, data])
    file_text,        \* script variable file_text: None or Some(str)
    prompt_for_model, \* the prompt handed to the model on the last run: None or Some(str)
    gateway,          \* what the model call of the last script run did: "none", "reply", "raise"
    run_status        \* how the last script run ended: "ok" or "exception"

vars == <<text, pc, matches, idx, abbr_dict, best_full, output, app, session_state,
          question, api_key, uploaded_file, file_text, prompt_for_model, gateway,
          run_status>>

idxVars == <<text, matches, idx, abbr_dict, best_full, output>>
uiVars  == <<app, session_state, question, api_key, prompt_for_model, gateway, run_status>>

(***************************************************************************)
(* Python values.                                                          *)
(***************************************************************************)
None == <<>>
Some(x) == <<x>>
Val(o) == o[1]

\* Truth value of an optional str: None and "" are falsy.
Truthy(o) == o # None /\ Val(o) # <<>>

Min(a, b) == IF a < b THEN a ELSE b

(***************************************************************************)
(* Characters.                                                             *)
(***************************************************************************)
UpperSeq == <<"A","B","C","D","E","F","G","H","I","J","K","L","M",
              "N","O","P","Q","R","S","T","U","V","W","X","Y","Z">>
LowerSeq == <<"a","b","c","d","e","f","g","h","i","j","k","l","m",
              "n","o","p","q","r","s","t","u","v","w","x","y","z">>
Upper  == {UpperSeq[i] : i \in DOMAIN UpperSeq}          \* [A-Z]
Lower  == {LowerSeq[i] : i \in DOMAIN LowerSeq}          \* [a-z]
Letter == Upper \cup Lower                               \* [A-Za-z]
Digit  == {"0","1","2","3","4","5","6","7","8","9"}      \* [0-9]
Space  == {" ", "\t", "\n", "\r", "\f"}                  \* \s
PhraseChar == Letter \cup Digit \cup Space \cup {"-"}    \* [A-Za-z0-9\s\-]
WordChar   == Letter \cup Digit \cup {"_"}               \* \w

\* Code point order of the capital letters (str comparison in sorted()).
Ord(c) == CHOOSE i \in DOMAIN UpperSeq : UpperSeq[i] = c

\* str.lower() of one character.
LowerChar(c) == IF c \in Upper THEN LowerSeq[Ord(c)] ELSE c
LowerStr(s) == [i \in DOMAIN s |-> LowerChar(s[i])]

\* str.endswith
EndsWith(s, suf) ==
    /\ Len(s) >= Len(suf)
    /\ SubSeq(s, Len(s) - Len(suf) + 1, Len(s)) = suf

\* str.isupper(): at least one cased character and no lowercase one.
IsUpperStr(s) ==
    /\ \E i \in DOMAIN s : s[i] \in Upper
    /\ \A i \in DOMAIN s : s[i] \notin Lower

\* A greedy run: the index of the last character of the longest run of
\* characters of class S that starts at p (p - 1 when the run is empty).
RECURSIVE RunEnd(_, _, _)
RunEnd(t, p, S) ==
    IF p <= Len(t) /\ t[p] \in S THEN RunEnd(t, p + 1, S) ELSE p - 1

\* The index of the first character of the longest run of class S ending at p.
RECURSIVE RunStart(_, _, _)
RunStart(t, p, S) ==
    IF p >= 1 /\ t[p] \in S THEN RunStart(t, p - 1, S) ELSE p + 1

\* str.strip()
Strip(s) ==
    LET a == RunEnd(s, 1, Space) + 1
        b == RunStart(s, Len(s), Space) - 1
    IN  IF a > b THEN <<>> ELSE SubSeq(s, a, b)

\* sep.join(parts)
RECURSIVE Join(_, _)
Join(parts, sep) ==
    IF parts = <<>> THEN <<>>
    ELSE IF Len(parts) = 1 THEN parts[1]
    ELSE parts[1] \o sep \o Join(Tail(parts), sep)

\* str.split() without argument: the maximal runs of non-whitespace.
RECURSIVE SplitFrom(_, _)
SplitFrom(s, p) ==
    IF p > Len(s) THEN <<>>
    ELSE IF s[p] \in Space THEN SplitFrom(s, p + 1)
    ELSE LET e == CHOOSE k \in p..Len(s) :
                    /\ \A j \in p..k : s[j] \notin Space
                    /\ (k = Len(s) \/ s[k + 1] \in Space)
         IN  <<SubSeq(s, p, e)>> \o SplitFrom(s, e + 1)
Split(s) == SplitFrom(s, 1)

(***************************************************************************)
(* appQ2.extract_abbreviations_simple                                      *)
(*                                                                         *)
(*   pattern = ([A-Za-z][A-Za-z0-9\s\-]+?)\s*\(([A-Z]{2,8})\)              *)
(***************************************************************************)
AbbrMinLen == 2
AbbrMaxLen == 8

NoMatch == [ok |-> FALSE, full |-> <<>>, abbr |-> <<>>, end |-> 0]

\* The tail of the pattern, \s*\(([A-Z]{2,8})\), tried at position p.
\* \s* is greedy and must be followed by "(", which is no whitespace, so only
\* its longest run can succeed; [A-Z]{m,n} is greedy, takes at most n letters
\* and must be followed by ")", so only its longest run (cut at n) can succeed.
\* The lower repetition bound is a parameter.
TailWith(t, p, lo) ==
    LET q == RunEnd(t, p, Space) + 1
        n == Min(RunEnd(t, q + 1, Upper) - q, AbbrMaxLen)
    IN  IF /\ q <= Len(t)
           /\ t[q] = "("
           /\ n >= lo
           /\ q + n + 1 <= Len(t)
           /\ t[q + n + 1] = ")"
        THEN [ok |-> TRUE, full |-> <<>>, abbr |-> SubSeq(t, q + 1, q + n),
              end |-> q + n + 1]
        ELSE NoMatch

\* The tail with the repetition {1,8}.
TailAt_min1(t, p) == TailWith(t, p, 1)

TailAt(t, p) == TailWith(t, p, AbbrMinLen)

\* The lazy group [A-Za-z0-9\s\-]+? after the first letter at i: group 1 is
\* t[i..k] for the smallest k >= i + 1 at which the tail matches.
RECURSIVE LazyFrom(_, _, _)
LazyFrom(t, i, k) ==
    IF k > Len(t) \/ t[k] \notin PhraseChar THEN NoMatch
    ELSE LET tl == TailAt(t, k + 1)
         IN  IF tl.ok
             THEN [ok |-> TRUE, full |-> SubSeq(t, i, k), abbr |-> tl.abbr,
                   end |-> tl.end]
             ELSE LazyFrom(t, i, k + 1)

\* The whole pattern tried at start position i.
MatchAt(t, i) ==
    IF i <= Len(t) /\ t[i] \in Letter THEN LazyFrom(t, i, i + 1) ELSE NoMatch

\* re.findall: scan left to right, take the first start position that
\* matches, resume after the end of the match.  Each element is the tuple
\* (group 1, group 2).
RECURSIVE FindAllFrom(_, _)
FindAllFrom(t, pos) ==
    LET starts == {i \in pos..Len(t) : MatchAt(t, i).ok}
    IN  IF starts = {} THEN <<>>
        ELSE LET i == CHOOSE i \in starts : \A j \in starts : i <= j
                 m == MatchAt(t, i)
             IN  << <<m.full, m.abbr>> >> \o FindAllFrom(t, m.end + 1)

findall(t) == FindAllFrom(t, 1)

\* re.findall(r"[A-Za-z]+", full)
RECURSIVE WordsFrom(_, _)
WordsFrom(s, p) ==
    IF p > Len(s) THEN <<>>
    ELSE IF s[p] \in Letter
         THEN LET e == RunEnd(s, p, Letter)
              IN  <<SubSeq(s, p, e)>> \o WordsFrom(s, e + 1)
         ELSE WordsFrom(s, p + 1)
words_of(full) == WordsFrom(full, 1)

\* words[-n:]
LastN(ws, n) == SubSeq(ws, Len(ws) - n + 1, Len(ws))

\* The candidates with every slice one word short: words[-3:], words[-2:],
\* words[-1:].
candidate_phrases_off_by_one(ws) ==
    LET c4 == IF Len(ws) >= 4 THEN << Join(LastN(ws, 3), <<" ">>) >> ELSE <<>>
        c3 == IF Len(ws) >= 3 THEN << Join(LastN(ws, 2), <<" ">>) >> ELSE <<>>
        c2 == IF Len(ws) >= 2 THEN << Join(LastN(ws, 1), <<" ">>) >> ELSE <<>>
        c  == c4 \o c3 \o c2
    IN  IF c = <<>> THEN << Join(ws, <<" ">>) >> ELSE c

\* candidate_phrases: the last 4, 3 and 2 words, else the words themselves.
candidate_phrases(ws) ==
    LET c4 == IF Len(ws) >= 4 THEN << Join(LastN(ws, 4), <<" ">>) >> ELSE <<>>
        c3 == IF Len(ws) >= 3 THEN << Join(LastN(ws, 3), <<" ">>) >> ELSE <<>>
        c2 == IF Len(ws) >= 2 THEN << Join(LastN(ws, 2), <<" ">>) >> ELSE <<>>
        c  == c4 \o c3 \o c2
    IN  IF c = <<>> THEN << Join(ws, <<" ">>) >> ELSE c

\* score(phrase): how many words of the phrase start with an uppercase letter.
score(phrase) ==
    LET ws == Split(phrase)
    IN  Cardinality({i \in DOMAIN ws : ws[i] # <<>> /\ ws[i][1] \in Upper})

\* max(candidate_phrases, key=score): the running maximum is replaced only by
\* a strictly greater key, so the first maximal element is returned.
RECURSIVE MaxFrom(_, _, _)
MaxFrom(cands, i, best) ==
    IF i > Len(cands) THEN best
    ELSE MaxFrom(cands, i + 1,
                 IF score(cands[i]) > score(best) THEN cands[i] ELSE best)

\* A maximum that is also replaced by an equal key: the last maximal element.
RECURSIVE MaxLastFrom(_, _, _)
MaxLastFrom(cands, i, best) ==
    IF i > Len(cands) THEN best
    ELSE MaxLastFrom(cands, i + 1,
                     IF score(cands[i]) >= score(best) THEN cands[i] ELSE best)

max_by_score_last(cands) == MaxLastFrom(cands, 2, cands[1])

max_by_score(cands) == MaxFrom(cands, 2, cands[1])

\* ABBR_OVERRIDES
ABBR_OVERRIDES ==
    << <<<<"M","C","M","C","M","L">>, <<"M","a","r","k","o","v"," ","C","h","a","i","n"," ","M","o","n","t","e"," ","C","a","r","l","o"," ","M","a","x","i","m","u","m"," ","L","i","k","e","l","i","h","o","o","d">>>>,
       <<<<"N","S","F","C">>, <<"N","a","t","i","o","n","a","l"," ","N","a","t","u","r","a","l"," ","S","c","i","e","n","c","e"," ","F","o","u","n","d","a","t","i","o","n"," ","o","f"," ","C","h","i","n","a">>>>,
       <<<<"U","B","I","D">>, <<"U","n","k","n","o","w","n">>>> >>

\* key in d, d[key] for a dict kept as a sequence of (key, value) pairs.
HasKey(d, k) == \E i \in DOMAIN d : d[i][1] = k
Lookup(d, k) == d[CHOOSE i \in DOMAIN d : d[i][1] = k][2]

\* No override: the computed phrase is kept.
apply_override_never(abbr, best) == best

\* Lines 131-133: the manual override replaces the computed phrase.
apply_override(abbr, best) ==
    IF HasKey(ABBR_OVERRIDES, abbr) THEN Lookup(ABBR_OVERRIDES, abbr) ELSE best

\* Lines 108-133 for one match: the value of best_full.
best_full_of(full, abbr) ==
    apply_override(abbr, max_by_score(candidate_phrases(words_of(full))))

\* An unguarded abbr_dict[abbr] = best_full: the last definition is kept.
store_last(d, abbr, best) ==
    IF HasKey(d, abbr)
    THEN [i \in DOMAIN d |-> IF d[i][1] = abbr THEN <<abbr, best>> ELSE d[i]]
    ELSE Append(d, <<abbr, best>>)

\* Lines 135-137: store the first encountered definition only.
store(d, abbr, best) ==
    IF ~HasKey(d, abbr) THEN Append(d, <<abbr, best>>) ELSE d

\* str < str on abbreviations: lexicographic by code point, a proper prefix
\* is smaller.
RECURSIVE StrLess(_, _)
StrLess(a, b) ==
    IF b = <<>> THEN FALSE
    ELSE IF a = <<>> THEN TRUE
    ELSE IF a[1] # b[1] THEN Ord(a[1]) < Ord(b[1])
    ELSE StrLess(Tail(a), Tail(b))

\* sorted(abbr_dict.items()): the keys are distinct, so the order of the
\* (key, value) tuples is the order of the keys.
RECURSIVE InsertSorted(_, _)
InsertSorted(s, e) ==
    IF s = <<>> THEN <<e>>
    ELSE IF StrLess(e[1], s[1][1]) THEN <<e>> \o s
    ELSE <<s[1]>> \o InsertSorted(Tail(s), e)

RECURSIVE SortItems(_)
SortItems(d) ==
    IF d = <<>> THEN <<>>
    ELSE InsertSorted(SortItems(SubSeq(d, 1, Len(d) - 1)), d[Len(d)])

\* abbr_dict.items() as they are, in insertion order.
sorted_items_unsorted(d) == d

sorted_items(d) == SortItems(d)

NoAbbreviationsFound == <<"N","o"," ","a","b","b","r","e","v","i","a","t","i","o","n","s"," ","f","o","u","n","d",".">>

\* Lines 139-143: the lines "ABBR: full", the fixed message when there is none.
render(d) ==
    LET items == sorted_items(d)
        lines == [i \in DOMAIN items |-> items[i][1] \o <<":", " ">> \o items[i][2]]
    IN  IF lines = <<>> THEN NoAbbreviationsFound ELSE Join(lines, <<"\n">>)

\* One iteration of the for loop (lines 101-137) on the dict d.
loop_body(d, m) ==
    LET abbr == Strip(m[2])
        ws   == words_of(m[1])
    IN  IF ~IsUpperStr(abbr) THEN d
        ELSE IF ws = <<>> THEN d
        ELSE store(d, abbr, best_full_of(m[1], abbr))

RECURSIVE LoopFrom(_, _, _)
LoopFrom(ms, i, d) ==
    IF i > Len(ms) THEN d ELSE LoopFrom(ms, i + 1, loop_body(d, ms[i]))

\* The whole function, as the Send handler of appQ2 calls it.
extract_abbreviations_simple(t) ==
    LET ms == findall(t)
    IN  IF ms = <<>> THEN NoAbbreviationsFound
        ELSE render(LoopFrom(ms, 1, <<>>))

(***************************************************************************)
(* extract_text_from_uploaded_file                                         *)
(*                                                                         *)
(* An uploaded file is [name, data]: its file name and the text its        *)
(* format's reader yields (the decoded bytes of a .txt file, the page      *)
(* texts of a PDF joined by newlines, the paragraphs of a .docx, the text  *)
(* nodes of an HTML page).                                                 *)
(***************************************************************************)
SuffixTxt  == <<".","t","x","t">>
SuffixPdf  == <<".","p","d","f">>
SuffixDocx == <<".","d","o","c","x">>
SuffixHtml == <<".","h","t","m","l">>
SuffixHtm  == <<".","h","t","m">>

Unsupported == <<"<","<","U","n","s","u","p","p","o","r","t","e","d"," ","f","i","l","e"," ","t","y","p","e",">",">">>

\* The pattern (\w+)-\s+(\w+) tried at position i.  Each quantifier is
\* greedy and is followed by a character outside its own class, so only its
\* longest run can succeed.
HyphenMatchAt(t, i) ==
    LET e1 == RunEnd(t, i, WordChar)
        e2 == RunEnd(t, e1 + 2, Space)
        e3 == RunEnd(t, e2 + 1, WordChar)
    IN  IF /\ e1 >= i
           /\ e1 + 1 <= Len(t)
           /\ t[e1 + 1] = "-"
           /\ e2 >= e1 + 2
           /\ e3 >= e2 + 1
        THEN [ok |-> TRUE, g1 |-> SubSeq(t, i, e1), g2 |-> SubSeq(t, e2 + 1, e3),
              end |-> e3]
        ELSE [ok |-> FALSE, g1 |-> <<>>, g2 |-> <<>>, end |-> 0]

\* re.sub(r"(\w+)-\s+(\w+)", r"\1\2", text): one left-to-right pass over the
\* non-overlapping matches; the scan resumes after the end of each match.
RECURSIVE SubFrom(_, _)
SubFrom(t, pos) ==
    IF pos > Len(t) THEN <<>>
    ELSE LET m == HyphenMatchAt(t, pos)
         IN  IF m.ok THEN m.g1 \o m.g2 \o SubFrom(t, m.end + 1)
             ELSE <<t[pos]>> \o SubFrom(t, pos + 1)

clean_text(t) == SubFrom(t, 1)

\* filename.endswith(...) on the lowercased name.
IsTxt(f)  == EndsWith(LowerStr(f.name), SuffixTxt)
IsPdf(f)  == EndsWith(LowerStr(f.name), SuffixPdf)
IsDocx(f) == EndsWith(LowerStr(f.name), SuffixDocx)
IsHtml(f) == EndsWith(LowerStr(f.name), SuffixHtml) \/ EndsWith(LowerStr(f.name), SuffixHtm)
Recognized(f) == IsTxt(f) \/ IsPdf(f) \/ IsDocx(f) \/ IsHtml(f)

\* appQ2: every branch assigns text, an unsupported type gives "", then the
\* clean-up and strip().
extract_text_Q2(f) ==
    LET raw == IF Recognized(f) THEN f.data ELSE <<>>
    IN  Strip(clean_text(raw))

\* appQ1 and appQ4: .txt is returned as decoded, the other formats are
\* stripped, an unsupported type gives the sentinel string.
extract_text_Q1(f) ==
    IF IsTxt(f) THEN f.data
    ELSE IF IsPdf(f) \/ IsDocx(f) \/ IsHtml(f) THEN Strip(f.data)
    ELSE Unsupported

extract_text_Q4(f) ==
    IF IsTxt(f) THEN f.data
    ELSE IF IsPdf(f) \/ IsDocx(f) \/ IsHtml(f) THEN Strip(f.data)
    ELSE Unsupported

(***************************************************************************)
(* Inputs.  A text is a concatenation of at most n fragments.              *)
(***************************************************************************)
RECURSIVE Concats(_, _)
Concats(F, n) ==
    IF n = 0 THEN {<<>>}
    ELSE LET S == Concats(F, n - 1)
         IN  S \cup {s \o f : s \in S, f \in F}

MaxSentences == 3
MaxWords     == 6
MaxPieces    == 5
MaxHistory   == 4

\* Sentences: definitions of FB (twice, with different phrases), the three
\* override keys, two keys out of order, and parentheses that are no
\* abbreviation (one letter, lowercase, nine letters).
SentenceFrags ==
    { <<"F","o","o"," ","B","a","r"," ","(","F","B",")">>, <<"B","a","z"," ","Q","u","x"," ","(","F","B",")">>, <<"t","h","e"," ">>, <<"."," ">>,
      <<"S","c","i"," ","F","o","u","n","d"," ","(","N","S","F","C",")">>, <<"U"," ","(","U","B","I","D",")">>, <<"M","c"," ","(","M","C","M","C","M","L",")">>,
      <<"Z","e","d"," ","(","Z","Z",")">>, <<"A","b"," ","(","A","A",")">>, <<"x"," ","(","F",")">>, <<"y"," ","(","f","b",")">>,
      <<"z"," ","(","A","B","C","D","E","F","G","H","I",")">> }

\* Short words, capitalised or not, before one abbreviation.
WordFrags == { <<"A"," ">>, <<"b"," ">>, <<"(","X","Y",")">> }

\* Pieces of hyphenated text.
PieceFrags ==
    { <<"M","o","n">>, <<"i","t","o","r">>, <<"-">>, <<"-"," ">>, <<"-","\n"," ">>, <<" ">>,
      <<" ","(","M","O",")">> }

IndexerTexts == Concats(SentenceFrags, MaxSentences) \cup Concats(WordFrags, MaxWords)

IdleUI ==
    /\ app = "none"
    /\ session_state = <<>>
    /\ question = <<>>
    /\ api_key = <<>>
    /\ prompt_for_model = None
    /\ gateway = "none"
    /\ run_status = "ok"

IdleIndexer ==
    /\ text = <<>>
    /\ matches = <<>>
    /\ idx = 1
    /\ abbr_dict = <<>>
    /\ best_full = <<>>
    /\ output = <<>>

(***************************************************************************)
(* extract_abbreviations_simple, statement by statement.                   *)
(***************************************************************************)
\* Lines 86-90: findall, and the early return when nothing matched.
Scan ==
    /\ pc = "start"
    /\ matches' = findall(text)
    /\ idx' = 1
    /\ abbr_dict' = <<>>
    /\ IF matches' = <<>>
       THEN output' = NoAbbreviationsFound /\ pc' = "done"
       ELSE output' = output /\ pc' = "loop"
    /\ UNCHANGED <<text, best_full, uploaded_file, file_text>>
    /\ UNCHANGED uiVars

\* Lines 101-137: one iteration of the for loop.
Iterate ==
    /\ pc = "loop"
    /\ idx <= Len(matches)
    /\ LET m    == matches[idx]
           abbr == Strip(m[2])
       IN  /\ abbr_dict' = loop_body(abbr_dict, m)
           /\ best_full' = IF IsUpperStr(abbr) /\ words_of(m[1]) # <<>>
                           THEN best_full_of(m[1], abbr)
                           ELSE best_full
    /\ idx' = idx + 1
    /\ pc' = IF idx' > Len(matches) THEN "render" ELSE "loop"
    /\ UNCHANGED <<text, matches, output, uploaded_file, file_text>>
    /\ UNCHANGED uiVars

\* Lines 139-143: the sorted lines, or the fixed message.
Render ==
    /\ pc = "render"
    /\ output' = render(abbr_dict)
    /\ pc' = "done"
    /\ UNCHANGED <<text, matches, idx, abbr_dict, best_full, uploaded_file, file_text>>
    /\ UNCHANGED uiVars

InitIndexer ==
    /\ text \in IndexerTexts
    /\ pc = "start"
    /\ matches = <<>>
    /\ idx = 1
    /\ abbr_dict = <<>>
    /\ best_full = <<>>
    /\ output = <<>>
    /\ uploaded_file = None
    /\ file_text = None
    /\ IdleUI

NextIndexer == Scan \/ Iterate \/ Render

SpecIndexer == InitIndexer /\ [][NextIndexer]_vars

(***************************************************************************)
(* One run of appQ2 with a document uploaded and Send pressed: the text    *)
(* is extracted (lines 161-163), then the Send handler checks it and calls *)
(* extract_abbreviations_simple on it (lines 170-181).                     *)
(***************************************************************************)
ExtractText ==
    /\ pc = "upload"
    /\ file_text' = Some(extract_text_Q2(Val(uploaded_file)))
    /\ IF Truthy(file_text')
       THEN text' = Val(file_text') /\ pc' = "start"
       ELSE text' = text /\ pc' = "error"
    /\ UNCHANGED <<matches, idx, abbr_dict, best_full, output, uploaded_file>>
    /\ UNCHANGED uiVars

InitExtract ==
    /\ uploaded_file \in {Some([name |-> n, data |-> d]) :
                            n \in {<<"a",".","t","x","t">>, <<"e",".","c","s","v">>},
                            d \in Concats(PieceFrags, MaxPieces)}
    /\ file_text = None
    /\ pc = "upload"
    /\ IdleIndexer
    /\ IdleUI

NextExtract == ExtractText \/ Scan \/ Iterate \/ Render

SpecExtract == InitExtract /\ [][NextExtract]_vars

(***************************************************************************)
(* The interactive session.  Streamlit runs the script from the top on     *)
(* every interaction: when a widget value changes (the button is then not  *)
(* pressed) and when Send is pressed.  st.session_state lives across the   *)
(* runs, the script's variables do not.                                    *)
(***************************************************************************)
Apps == {"appQ1", "appQ2", "appQ4"}

Questions == { <<>>, <<" ">>, <<"q">> }
ApiKeys   == { <<>>, <<"k">> }
UiNames   == { <<"a",".","t","x","t">>, <<"b",".","P","D","F">>, <<"e",".","c","s","v">> }
UiData    == { <<>>, <<"M","o","n","-","\n"," ","i","t","o","r"," ","(","M","O",")">> }
UiFiles   == {[name |-> n, data |-> d] : n \in UiNames, d \in UiData}

\* What the model call can do: return a reply or raise.
Outcomes  == {"reply", "raise"}
ModelReply == <<"o","k">>
ErrorText  == <<"t","i","m","e","o","u","t">>

Entry(r, c) == [role |-> r, content |-> c]

HasHistory(ss) == "history" \in DOMAIN ss
HistoryOf(ss)  == IF HasHistory(ss) THEN ss["history"] ELSE <<>>
history        == HistoryOf(session_state)

WithHistory(ss, h) ==
    [k \in DOMAIN ss \cup {"history"} |-> IF k = "history" THEN h ELSE ss[k]]

\* st.session_state.history = [] without the guard: a fresh log on every run.
ensure_history_reset(ss) == WithHistory(ss, <<>>)

\* if "history" not in st.session_state: st.session_state.history = []
ensure_history(ss) == IF ~HasHistory(ss) THEN WithHistory(ss, <<>>) ELSE ss

\* appQ1 lines 76-82: the message shown for the user's turn.
display_message_Q1(q, uf) ==
    IF uf # None
    THEN q \o <<"\n","\n">> \o <<"[","D","o","c","u","m","e","n","t"," ","u","p","l","o","a","d","e","d",":"," ">> \o Val(uf).name
           \o <<" ","i","n","g","e","s","t","e","d"," ","s","u","c","c","e","s","s","f","u","l","l","y","]">>
    ELSE q

\* appQ1 lines 88-99: the prompt sent to the model.
prompt_Q1(q, ft) ==
    IF Truthy(ft)
    THEN <<"\n","Y","o","u"," ","a","r","e"," ","a","n"," ","a","s","s","i","s","t","a","n","t","."," ","A","n","s","w","e","r"," ","t","h","e"," ","u","s","e","r","'","s"," ","q","u","e","s","t","i","o","n"," ","u","s","i","n","g"," ","t","h","e"," ","d","o","c","u","m","e","n","t"," ","t","e","x","t"," ","p","r","o","v","i","d","e","d",".","\n","\n","Q","u","e","s","t","i","o","n",":","\n">>
           \o q \o <<"\n","\n","D","o","c","u","m","e","n","t"," ","t","e","x","t",":","\n">> \o Val(ft) \o <<"\n">>
    ELSE q

\* appQ4 lines 96-107.
display_message_Q4(q, uf, ft) ==
    IF uf # None /\ Truthy(ft)
    THEN q \o <<"\n","\n">> \o <<"[","D","o","c","u","m","e","n","t"," ","u","p","l","o","a","d","e","d",":"," ">> \o Val(uf).name
           \o <<" ","i","n","g","e","s","t","e","d"," ","s","u","c","c","e","s","s","f","u","l","l","y","]">>
    ELSE IF uf # None /\ ~Truthy(ft)
    THEN q \o <<"\n","\n">> \o <<"[","D","o","c","u","m","e","n","t"," ","u","p","l","o","a","d","e","d",":"," ">> \o Val(uf).name
           \o <<" ","(","n","o"," ","t","e","x","t"," ","e","x","t","r","a","c","t","e","d",")","]">>
    ELSE q

\* appQ4 lines 113-124.
prompt_Q4(q, ft) ==
    IF Truthy(ft)
    THEN <<"\n","Y","o","u"," ","a","r","e"," ","g","i","v","e","n"," ","a"," ","q","u","e","s","t","i","o","n"," ","a","n","d"," ","t","h","e"," ","f","u","l","l"," ","t","e","x","t"," ","o","f"," ","a"," ","d","o","c","u","m","e","n","t",".","\n","\n","Q","u","e","s","t","i","o","n",":","\n">>
           \o q \o <<"\n","\n","D","o","c","u","m","e","n","t"," ","t","e","x","t",":","\n">> \o Val(ft) \o <<"\n">>
    ELSE q

\* appQ4 lines 126-153: the reply, or the text made of the exception caught.
reply_Q4(outcome) ==
    IF outcome = "raise" THEN <<"E","r","r","o","r"," ","c","a","l","l","i","n","g"," ","O","p","e","n","A","I"," ","A","P","I",":"," ">> \o ErrorText
    ELSE ModelReply

\* appQ2 line 176.
user_message_Q2 == <<"\n","\n","[","D","o","c","u","m","e","n","t"," ","a","t","t","a","c","h","e","d"," ","a","n","d"," ","p","r","o","c","e","s","s","e","d","]">>

\* One run of appQ1.py (lines 52-112) with the widget values q and uf.
\* ollama.chat is called outside any try: when it raises, the run ends with
\* the exception, after the user entry was appended.
RunQ1(q, uf, send, outcome) ==
    LET ss == ensure_history(session_state)
        ft == IF uf # None THEN Some(extract_text_Q1(Val(uf))) ELSE None
        h1 == Append(HistoryOf(ss), Entry("user", display_message_Q1(q, uf)))
    IN  /\ file_text' = ft
        /\ IF send /\ Strip(q) # <<>>
           THEN /\ prompt_for_model' = Some(prompt_Q1(q, ft))
                /\ gateway' = outcome
                /\ IF outcome = "raise"
                   THEN /\ session_state' = WithHistory(ss, h1)
                        /\ run_status' = "exception"
                   ELSE /\ session_state' =
                             WithHistory(ss, Append(h1, Entry("assistant", ModelReply)))
                        /\ run_status' = "ok"
           ELSE /\ prompt_for_model' = None
                /\ gateway' = "none"
                /\ session_state' = ss
                /\ run_status' = "ok"

\* One run of appQ2.py (lines 146-185).
RunQ2(uf, send) ==
    LET ss == ensure_history(session_state)
        ft == IF uf # None THEN Some(extract_text_Q2(Val(uf))) ELSE None
    IN  /\ file_text' = ft
        /\ prompt_for_model' = None
        /\ gateway' = "none"
        /\ run_status' = "ok"
        /\ IF send /\ uf # None /\ Truthy(ft)
           THEN session_state' =
                  WithHistory(ss, HistoryOf(ss) \o
                    << Entry("user", user_message_Q2),
                       Entry("assistant", extract_abbreviations_simple(Val(ft))) >>)
           ELSE session_state' = ss

\* One run of appQ4.py (lines 63-157).
RunQ4(q, k, uf, send, outcome) ==
    LET ss == ensure_history(session_state)
        ft == IF uf # None THEN Some(extract_text_Q4(Val(uf))) ELSE None
    IN  /\ file_text' = ft
        /\ run_status' = "ok"
        /\ IF send /\ Strip(k) # <<>> /\ Strip(q) # <<>>
           THEN /\ prompt_for_model' = Some(prompt_Q4(q, ft))
                /\ gateway' = outcome
                /\ session_state' =
                     WithHistory(ss, HistoryOf(ss) \o
                       << Entry("user", display_message_Q4(q, uf, ft)),
                          Entry("assistant", reply_Q4(outcome)) >>)
           ELSE /\ prompt_for_model' = None
                /\ gateway' = "none"
                /\ session_state' = ss

ScriptRun(q, k, uf, send, outcome) ==
    /\ question' = q
    /\ api_key' = k
    /\ uploaded_file' = uf
    /\ CASE app = "appQ1" -> RunQ1(q, uf, send, outcome)
         [] app = "appQ2" -> RunQ2(uf, send)
         [] app = "appQ4" -> RunQ4(q, k, uf, send, outcome)
    /\ pc' = "ui"
    /\ app' = app
    /\ UNCHANGED idxVars

\* The first run of the script, when the page is opened.
Open ==
    /\ pc = "new"
    /\ ScriptRun(question, api_key, uploaded_file, FALSE, "reply")

\* The user edits the question box (appQ1, appQ4).
TypeQuestion(q) ==
    /\ pc = "ui"
    /\ app \in {"appQ1", "appQ4"}
    /\ q # question
    /\ ScriptRun(q, api_key, uploaded_file, FALSE, "reply")

\* The user edits the API key box (appQ4).
TypeApiKey(k) ==
    /\ pc = "ui"
    /\ app = "appQ4"
    /\ k # api_key
    /\ ScriptRun(question, k, uploaded_file, FALSE, "reply")

\* The user uploads a file, or replaces the one uploaded.
Upload(f) ==
    /\ pc = "ui"
    /\ Some(f) # uploaded_file
    /\ ScriptRun(question, api_key, Some(f), FALSE, "reply")

\* The user removes the uploaded file.
RemoveFile ==
    /\ pc = "ui"
    /\ uploaded_file # None
    /\ ScriptRun(question, api_key, None, FALSE, "reply")

\* The user presses Send; the model, if called, replies or raises.
Send(outcome) ==
    /\ pc = "ui"
    /\ Len(history) + 2 <= MaxHistory
    /\ ScriptRun(question, api_key, uploaded_file, TRUE, outcome)

Init ==
    /\ app \in Apps
    /\ pc = "new"
    /\ session_state = <<>>
    /\ question = <<>>
    /\ api_key = <<>>
    /\ uploaded_file = None
    /\ file_text = None
    /\ prompt_for_model = None
    /\ gateway = "none"
    /\ run_status = "ok"
    /\ IdleIndexer

Next ==
    \/ Open
    \/ \E q \in Questions : TypeQuestion(q)
    \/ \E k \in ApiKeys : TypeApiKey(k)
    \/ \E f \in UiFiles : Upload(f)
    \/ RemoveFile
    \/ \E o \in Outcomes : Send(o)

Spec == Init /\ [][Next]_vars

(***************************************************************************)
(* Properties.                                                             *)
(***************************************************************************)
\* sub occurs in s at position i.
OccursAt(s, sub, i) ==
    /\ i >= 1
    /\ i + Len(sub) - 1 <= Len(s)
    /\ SubSeq(s, i, i + Len(sub) - 1) = sub

Contains(s, sub) == \E i \in 1..(Len(s) + 1) : OccursAt(s, sub, i)

\* The lines of a text: the pieces between newlines.
LinesOf(s) ==
    LET nl == {i \in DOMAIN s : s[i] = "\n"}
        nth(k) == CHOOSE i \in nl : Cardinality({j \in nl : j < i}) = k - 1
        first(k) == IF k = 1 THEN 1 ELSE nth(k - 1) + 1
        last(k) == IF k = Cardinality(nl) + 1 THEN Len(s) ELSE nth(k) - 1
    IN  [k \in 1..(Cardinality(nl) + 1) |-> SubSeq(s, first(k), last(k))]

HasLine(s, line) == \E i \in DOMAIN LinesOf(s) : LinesOf(s)[i] = line

\* The key of a line "ABBR: full term": what precedes the first colon.
KeyOfLine(line) ==
    IF \E i \in DOMAIN line : line[i] = ":"
    THEN SubSeq(line, 1, (CHOOSE i \in DOMAIN line :
                             line[i] = ":" /\ \A j \in 1..(i - 1) : line[j] # ":") - 1)
    ELSE line

LinesWithKey(s, k) == {i \in DOMAIN LinesOf(s) : KeyOfLine(LinesOf(s)[i]) = k}

OverrideKeys == { <<"M","C","M","C","M","L">>, <<"N","S","F","C">>, <<"U","B","I","D">> }

\* The first match whose abbreviation is k.
FirstMatchOf(k) ==
    matches[CHOOSE i \in DOMAIN matches :
              matches[i][2] = k /\ \A j \in 1..(i - 1) : matches[j][2] # k]

FooBarFB == <<"F","o","o"," ","B","a","r"," ","(","F","B",")">>
ParenFB  == <<"(","F","B",")">>
LineFB   == <<"F","B",":"," ","F","o","o"," ","B","a","r">>

\* C1 as stated: whenever the text contains "Foo Bar (FB)", whatever
\* precedes or follows it, the output contains the line "FB: Foo Bar".
C1_AnyContext ==
    (pc = "done" /\ Contains(text, FooBarFB)) => HasLine(output, LineFB)

\* The occurrence of "Foo Bar (FB)" at p opens its phrase: between the
\* nearest earlier character that is no letter, digit, whitespace or hyphen
\* (or the start of the text) and "Foo" there is no letter, and no "(FB)"
\* occurs earlier in the text.
OpensPhrase(p) ==
    /\ OccursAt(text, FooBarFB, p)
    /\ \A j \in RunStart(text, p - 1, PhraseChar)..(p - 1) : text[j] \notin Letter
    /\ \A j \in 1..(p + 7) : ~OccursAt(text, ParenFB, j)

\* C1, amended: when the text contains "Foo Bar (FB)" with no letter between
\* "Foo" and the nearest earlier character that cannot belong to a phrase
\* (or the start of the text), and "(FB)" does not occur earlier in the text,
\* the output contains the line "FB: Foo Bar".
C1_PhraseStart ==
    (pc = "done" /\ \E p \in DOMAIN text : OpensPhrase(p)) => HasLine(output, LineFB)

C1_Witness ==
    /\ pc = "done"
    /\ \E p \in DOMAIN text : p > 1 /\ OpensPhrase(p)
    /\ Len(LinesOf(output)) >= 2
    /\ HasLine(output, LineFB)

\* C2: every abbreviation key is recorded at most once, and for a key outside
\* the override table the recorded expansion is the one computed from the
\* first match of that key in scan order; later matches of the key never
\* change it.  Stated on the dict after every iteration and on the output.
C2_FirstWins ==
    /\ pc \in {"loop", "render", "done"} =>
         /\ \A i, j \in DOMAIN abbr_dict : abbr_dict[i][1] = abbr_dict[j][1] => i = j
         /\ \A i \in 1..(idx - 1) :
              LET k == matches[i][2]
              IN  /\ HasKey(abbr_dict, k)
                  /\ k \notin OverrideKeys =>
                       Lookup(abbr_dict, k) =
                         max_by_score(candidate_phrases(words_of(FirstMatchOf(k)[1])))
    /\ (pc = "done" /\ matches # <<>>) =>
         \A i \in DOMAIN matches :
            LET k == matches[i][2]
            IN  /\ Cardinality(LinesWithKey(output, k)) = 1
                /\ k \notin OverrideKeys =>
                     HasLine(output, k \o <<":", " ">> \o
                       max_by_score(candidate_phrases(words_of(FirstMatchOf(k)[1]))))

C2_Witness ==
    /\ pc = "done"
    /\ \E i, j \in DOMAIN matches :
          /\ i < j
          /\ matches[i][2] = matches[j][2]
          /\ matches[i][2] \notin OverrideKeys
          /\ words_of(matches[i][1]) # words_of(matches[j][1])
          /\ HasLine(output, matches[i][2] \o <<":", " ">> \o
                               Join(words_of(matches[i][1]), <<" ">>))

\* C3: a key of the override table that is matched at least once is printed
\* on exactly one line, with the override's fixed expansion, whatever
\* precedes its parenthesis and however often or in whatever order it occurs.
C3_OverrideWins ==
    (pc = "done" /\ matches # <<>>) =>
       \A i \in DOMAIN matches :
          LET k == matches[i][2]
          IN  k \in OverrideKeys =>
                /\ HasLine(output, k \o <<":", " ">> \o Lookup(ABBR_OVERRIDES, k))
                /\ Cardinality(LinesWithKey(output, k)) = 1

C3_Witness ==
    /\ pc = "done"
    /\ \E i, j \in DOMAIN matches :
          /\ i < j
          /\ matches[i][2] = <<"N","S","F","C">>
          /\ matches[j][2] = <<"N","S","F","C">>
          /\ matches[i][1] # matches[j][1]
    /\ HasLine(output, <<"N","S","F","C",":"," ","N","a","t","i","o","n","a","l"," ","N","a","t","u","r","a","l"," ","S","c","i","e","n","c","e"," ","F","o","u","n","d","a","t","i","o","n"," ","o","f"," ","C","h","i","n","a">>)

\* Lexicographic order of two strings of capital letters, by the first
\* position where they differ.
LexLess(a, b) ==
    \E n \in 0..Min(Len(a), Len(b)) :
       /\ SubSeq(a, 1, n) = SubSeq(b, 1, n)
       /\ \/ n = Len(a) /\ n < Len(b)
          \/ n < Len(a) /\ n < Len(b) /\ Ord(a[n + 1]) < Ord(b[n + 1])

\* C7: the lines of the output are in strictly ascending order of ABBR,
\* whatever the order in which the abbreviations were found.
C7_SortedLines ==
    (pc = "done" /\ output # NoAbbreviationsFound) =>
       \A i \in 1..(Len(LinesOf(output)) - 1) :
          LexLess(KeyOfLine(LinesOf(output)[i]), KeyOfLine(LinesOf(output)[i + 1]))

C7_Witness ==
    /\ pc = "done"
    /\ Len(matches) >= 2
    /\ matches[1][2] = <<"Z","Z">>
    /\ matches[2][2] = <<"A","A">>
    /\ Len(LinesOf(output)) = 2
    /\ KeyOfLine(LinesOf(output)[1]) = <<"A","A">>

\* The candidates of a phrase as word lists: its last 4, 3 and 2 words, or
\* its only word.
CandidateWords(ws) ==
    IF Len(ws) = 1 THEN {ws}
    ELSE {SubSeq(ws, Len(ws) - n + 1, Len(ws)) : n \in {m \in 2..4 : m <= Len(ws)}}

Capitalised(ws) == Cardinality({i \in DOMAIN ws : ws[i][1] \in Upper})

\* C8: after each iteration on a key that is not overridden, the expansion
\* chosen is a candidate with the highest number of capitalised words among
\* the last-4, last-3 and last-2 word candidates (the single word of a
\* one-word phrase), the longest one among those of equal score; it is the
\* one recorded when the key is new.
C8_BestCandidate ==
    (pc \in {"loop", "render"} /\ idx > 1 /\ matches[idx - 1][2] \notin OverrideKeys) =>
       LET ws == words_of(matches[idx - 1][1])
           k  == matches[idx - 1][2]
       IN  /\ \E c \in CandidateWords(ws) :
                 /\ best_full = Join(c, <<" ">>)
                 /\ \A d \in CandidateWords(ws) :
                       \/ Capitalised(c) > Capitalised(d)
                       \/ Capitalised(c) = Capitalised(d) /\ Len(c) >= Len(d)
           /\ (\A j \in 1..(idx - 2) : matches[j][2] # k) => Lookup(abbr_dict, k) = best_full

C8_Witness ==
    /\ pc \in {"loop", "render"}
    /\ idx > 1
    /\ matches[idx - 1][2] = <<"X","Y">>
    /\ LET ws == words_of(matches[idx - 1][1])
       IN  /\ Len(ws) >= 5
           /\ Capitalised(LastN(ws, 4)) = Capitalised(LastN(ws, 2))
           /\ Capitalised(LastN(ws, 2)) = 2
           /\ best_full = Join(LastN(ws, 4), <<" ">>)

\* The text holds a parenthesised token of 2 to 8 uppercase letters.
HasParenToken(t) ==
    \E i \in DOMAIN t : \E n \in 2..8 :
       /\ i + n + 1 <= Len(t)
       /\ t[i] = "("
       /\ \A j \in (i + 1)..(i + n) : t[j] \in Upper
       /\ t[i + n + 1] = ")"

\* C9: the function returns exactly "No abbreviations found." for a text
\* without a parenthesised token of 2 to 8 uppercase letters and whenever no
\* abbreviation was recorded, and never returns an empty body.
C9_NoneFound ==
    pc = "done" =>
       /\ ~HasParenToken(text) => output = NoAbbreviationsFound
       /\ abbr_dict = <<>> => output = NoAbbreviationsFound
       /\ output # <<>>

C9_Witness ==
    /\ pc = "done"
    /\ Contains(text, <<"(">>)
    /\ Contains(text, <<")">>)
    /\ ~HasParenToken(text)
    /\ output = NoAbbreviationsFound

\* The text holds a word character, a hyphen, whitespace and a word character
\* in a row.
HasSplitWord(t) ==
    \E i \in DOMAIN t :
       /\ t[i] \in WordChar
       /\ i + 3 <= Len(t)
       /\ t[i + 1] = "-"
       /\ LET e == RunEnd(t, i + 2, Space)
          IN  e >= i + 2 /\ e + 1 <= Len(t) /\ t[e + 1] \in WordChar

\* C6 as stated: the text returned by appQ2's extractor holds no word split
\* by a hyphen and whitespace, and "Mon-\n itor" comes out as "Monitor".
C6_NoSplitWordLeft ==
    file_text # None =>
       /\ ~HasSplitWord(Val(file_text))
       /\ (Recognized(Val(uploaded_file)) /\ Val(uploaded_file).data = <<"M","o","n","-","\n"," ","i","t","o","r">>)
             => Val(file_text) = <<"M","o","n","i","t","o","r">>

IsPrefix(s, t) == Len(s) <= Len(t) /\ SubSeq(t, 1, Len(s)) = s

\* C10: the conversation log only grows: across every step of a session the
\* log before the step is a prefix of the log after it.
C10_AppendOnly == [][IsPrefix(history, history')]_vars

C10_Witness ==
    /\ pc = "ui"
    /\ Len(history) >= 3
    /\ gateway = "none"
    /\ uploaded_file # None
    /\ question = <<>>

\* The last entry of the log written for the user's turn.
LastUserEntry ==
    history[CHOOSE i \in DOMAIN history :
              history[i].role = "user" /\ \A j \in (i + 1)..Len(history) : history[j].role # "user"]

\* C4 as stated: when the model call of a Send raises, the run does not end
\* with the exception and the log ends with the user entry followed by an
\* assistant entry that holds the error text.
C4_FailureAbsorbed ==
    gateway = "raise" =>
       /\ run_status = "ok"
       /\ Len(history) >= 2
       /\ history[Len(history) - 1].role = "user"
       /\ history[Len(history)].role = "assistant"
       /\ Contains(history[Len(history)].content, ErrorText)

=============================================================================
